---- MODULE Spec2Model ----
(***************************************************************************)
(* Model of service.py, the Kodi subtitle addon for subt.is.               *)
(*                                                                         *)
(* One invocation of the script is one run of main(): the host passes a    *)
(* parameter string (sys.argv[2]); main() parses it, runs one of the four  *)
(* branches (search, download, manualsearch, unknown) and calls            *)
(* endOfDirectory.  An exception nobody catches ends the invocation.       *)
(*                                                                         *)
(* A Python str or bytes value is a sequence of tokens.  A token is one    *)
(* character ("&", "=", "4", ...) or a fixed word of the program text      *)
(* ("action", "download", ...) that contains no delimiter and that no      *)
(* input of the model can spell, so token sequences are equal exactly      *)
(* when the strings are.                                                   *)
(***************************************************************************)
EXTENDS Integers, Sequences, FiniteSets, TLC

VARIABLES
    pc,          \* position of the current invocation
    argv2,       \* sys.argv[2] of the current invocation
    params,      \* get_params() of the current invocation
    origin,      \* the API identifier whose entry the host activated, or NoOrigin
    title,       \* item['title'] handed to search_subtitles
    reply,       \* what the remote API answered in this invocation
    returned,    \* the list returned by search_subtitles / download_subtitle
    hostCalls,   \* xbmcplugin calls of this invocation, in order
    httpLog,     \* urlopen calls of this invocation, in order
    io,          \* outcome of open()/write() in download_subtitle
    tempExists,  \* the scratch directory __temp__ exists
    files,       \* the files of the scratch directory: path -> bytes
    fs0,         \* <<tempExists, files>> when the current invocation started
    linesep,     \* os.linesep of the platform the host runs on
    invocations, \* number of invocations started so far
    rating,      \* input of the rating conversion (SpecStars)
    icon         \* result of the rating conversion (SpecStars)

vars == <<pc, argv2, params, origin, title, reply, returned, hostCalls, httpLog,
          io, tempExists, files, fs0, linesep, invocations, rating, icon>>

----------------------------------------------------------------------------
(* Bounds of the model *)

MaxResults == 2
MaxBody == 2
MaxInvocations == 2
MaxRating == 13
RatingScale == 10

----------------------------------------------------------------------------
(* Strings *)

SeqsUpTo(S, n) == UNION {[1..k -> S] : k \in 0..n}

\* str.find of a one-character separator: first index, 0 when absent
Find(s, c) ==
    IF \E i \in 1..Len(s) : s[i] = c
    THEN CHOOSE i \in 1..Len(s) : s[i] = c /\ \A j \in 1..(i - 1) : s[j] # c
    ELSE 0

\* str.split(sep)
RECURSIVE Split(_, _)
Split(s, sep) ==
    LET i == Find(s, sep)
    IN  IF i = 0 THEN <<s>>
        ELSE <<SubSeq(s, 1, i - 1)>> \o Split(SubSeq(s, i + 1, Len(s)), sep)

\* str.partition(sep): <<head, sep found?, tail>>
Partition(s, sep) ==
    LET i == Find(s, sep)
    IN  IF i = 0 THEN <<s, FALSE, <<>>>>
        ELSE <<SubSeq(s, 1, i - 1), TRUE, SubSeq(s, i + 1, Len(s))>>

\* len() of a str, in characters
RECURSIVE CharLen(_)
CharLen(s) == IF s = <<>> THEN 0 ELSE Len(Head(s)) + CharLen(Tail(s))

Digits == <<"0", "1", "2", "3", "4", "5", "6", "7", "8", "9">>

\* str() of an int
RECURSIVE PyStrNat(_)
PyStrNat(n) ==
    IF n < 10 THEN <<Digits[n + 1]>>
    ELSE PyStrNat(n \div 10) \o <<Digits[(n % 10) + 1]>>

PyStrInt(n) == IF n < 0 THEN <<"-">> \o PyStrNat(0 - n) ELSE PyStrNat(n)

HexDigits == {"0", "1", "2", "3", "4", "5", "6", "7", "8", "9",
              "a", "b", "c", "d", "e", "f", "A", "B", "C", "D", "E", "F"}

HexVal(c) ==
    CASE c \in {"a", "A"} -> 10 [] c \in {"b", "B"} -> 11 [] c \in {"c", "C"} -> 12
      [] c \in {"d", "D"} -> 13 [] c \in {"e", "E"} -> 14 [] c \in {"f", "F"} -> 15
      [] OTHER -> (CHOOSE n \in 0..9 : Digits[n + 1] = c)

\* the printable ASCII characters, from code 32 on (the two quotes and the
\* backslash are written as words)
Ascii == <<" ", "!", "<quot>", "#", "$", "%", "&", "'", "(", ")", "*", "+", ",", "-",
           ".", "/", "0", "1", "2", "3", "4", "5", "6", "7", "8", "9", ":", ";",
           "<", "=", ">", "?", "@", "A", "B", "C", "D", "E", "F", "G", "H", "I",
           "J", "K", "L", "M", "N", "O", "P", "Q", "R", "S", "T", "U", "V", "W",
           "X", "Y", "Z", "[", "<bslash>", "]", "^", "_", "<grave>", "a", "b", "c", "d", "e",
           "f", "g", "h", "i", "j", "k", "l", "m", "n", "o", "p", "q", "r", "s",
           "t", "u", "v", "w", "x", "y", "z", "{", "|", "}", "~">>

\* the character of a byte; a byte outside printable ASCII is kept as one
\* token that no other string of the model contains
Chr(n) == IF n - 31 \in DOMAIN Ascii THEN Ascii[n - 31] ELSE "<byte>"

\* urllib.parse.unquote: %XX becomes the character, anything else is kept
RECURSIVE unquote(_)
unquote(s) ==
    IF s = <<>> THEN <<>>
    ELSE IF /\ s[1] = "%"
            /\ Len(s) >= 3
            /\ s[2] \in HexDigits
            /\ s[3] \in HexDigits
         THEN <<Chr(16 * HexVal(s[2]) + HexVal(s[3]))>> \o unquote(SubSeq(s, 4, Len(s)))
         ELSE <<s[1]>> \o unquote(Tail(s))

\* str.replace of every plus sign by a space
PlusToSpace(s) == [i \in 1..Len(s) |-> IF s[i] = "+" THEN " " ELSE s[i]]

\* urllib.parse.quote of the characters a title of the model has: letters are
\* kept, a space is percent-encoded
RECURSIVE quote(_)
quote(s) ==
    IF s = <<>> THEN <<>>
    ELSE (IF Head(s) = " " THEN <<"%", "2", "0">> ELSE <<Head(s)>>) \o quote(Tail(s))

----------------------------------------------------------------------------
(* Values the remote API and the host can supply *)

\* the identifier of a search result: the key is absent (result.get gives
\* None), a JSON integer or a JSON string
IdAbsent == [t |-> "absent", n |-> 0, s |-> <<>>]
IdInt(n) == [t |-> "int", n |-> n, s |-> <<>>]
IdStr(s) == [t |-> "str", n |-> 0, s |-> s]
NoOrigin == [t |-> "none", n |-> 0, s |-> <<>>]

\* the rating of a search result, in units of 1/RatingScale: the key is
\* absent, a JSON number, or a value that is no number (null, a string)
RatingAbsent == [t |-> "absent", v |-> 0]
RatingNull == [t |-> "null", v |-> 0]
RatingNum(v) == [t |-> "number", v |-> v]

\* an element of the results array: a JSON object, or any other JSON value
ElemOther == [t |-> "other", id |-> IdAbsent, rating |-> RatingAbsent]
Elem(id, r) == [t |-> "object", id |-> id, rating |-> r]
Elems ==
    {Elem(IdInt(42), RatingNum(7 * RatingScale)),
     Elem(IdStr(<<"4", "2", "&">>), RatingAbsent),
     Elem(IdStr(<<"+">>), RatingNum(10 * RatingScale)),
     Elem(IdStr(<<"%", "3", "4", "2">>), RatingNum(0)),
     Elem(IdAbsent, RatingNum(7 * RatingScale)),
     Elem(IdInt(42), RatingNull),
     ElemOther}

\* the value under the key results: absent, empty (an empty string or
\* object), a value with no len() (null, a number, a boolean), a string or
\* object that is not empty, or an array
ResultsOf(t, items) == [t |-> t, items |-> items]
ResultsVals ==
    {ResultsOf(t, <<>>) : t \in {"absent", "empty", "nolen", "string"}}
        \cup {ResultsOf("array", l) : l \in SeqsUpTo(Elems, MaxResults)}

\* the decoded body of a search response: None or another falsy value
\* (0, an empty string, array or object), a truthy value that is no object
\* (an array, a number, a string), or an object
PyNone == [t |-> "null", results |-> ResultsOf("absent", <<>>)]
JsonTop ==
    {PyNone, [t |-> "other", results |-> ResultsOf("absent", <<>>)]}
        \cup {[t |-> "object", results |-> r] : r \in ResultsVals}

\* bytes of a subtitle body: a letter, a line feed, and the two bytes C3 A9
\* that are one character in UTF-8 when they follow each other and are not
\* UTF-8 otherwise
BodyBytes == {"a", "LF", "XC3", "XA9"}
Bodies == SeqsUpTo(BodyBytes, MaxBody)

\* what urlopen and read() do: URLError (connection, timeout), HTTPError
\* (status outside 2xx), InvalidURL (a space in the URL), a body that
\* json.loads rejects, or a 2xx response
NoReply == [status |-> "none", json |-> PyNone, body |-> <<>>]
FailedReplies ==
    {[status |-> st, json |-> PyNone, body |-> <<>>] : st \in {"URLError", "HTTPError"}}
SearchReplies ==
    FailedReplies
        \cup {[status |-> "BadJSON", json |-> PyNone, body |-> <<>>]}
        \cup {[status |-> "OK", json |-> j, body |-> <<>>] : j \in JsonTop}
InvalidURL == [status |-> "InvalidURL", json |-> PyNone, body |-> <<>>]
DownloadReplies(url) ==
    IF \E i \in 1..Len(url) : url[i] = " " THEN {InvalidURL}
    ELSE FailedReplies \cup {[status |-> "OK", json |-> PyNone, body |-> b] : b \in Bodies}

\* VideoPlayer.OriginalTitle and VideoPlayer.Title
Titles == {<<>>, <<"a", " ", "b">>}

LineSeps == {<<"LF">>, <<"CR", "LF">>}

----------------------------------------------------------------------------
(* make_request and search_subtitles *)

SUBTIS_API_BASE == <<"https://api.subt.is/v1">>

\* make_request: the decoded JSON, None on every exception
make_request(rep) == IF rep.status = "OK" THEN rep.json ELSE PyNone

\* a make_request that tries once more after a failure
make_request_calls_retry(url) == <<url, url>>

\* the urlopen calls one make_request(url) makes
make_request_calls(url) == <<url>>

search_url(t) == SUBTIS_API_BASE \o <<"/titles/search/">> \o quote(t)

\* an f-string field: str(None), str(int) or the string itself
Format(id) ==
    CASE id.t = "absent" -> <<"None">>
      [] id.t = "int" -> PyStrInt(id.n)
      [] OTHER -> id.s

action_url(id) ==
    <<"plugin://", "<scriptid>", "/", "?", "action", "=", "download", "&", "id", "=">>
        \o Format(id)

\* int() of a number given as n/d: truncation toward zero
TruncDiv(n, d) == IF n >= 0 THEN n \div d ELSE 0 - ((0 - n) \div d)

\* a conversion that rounds to the nearest star instead of truncating
rating_5_rounded(v) ==
    LET five == 5 * 2 * RatingScale
        least == IF v < five THEN v ELSE five
    IN  PyStrInt(TruncDiv(least + RatingScale, 2 * RatingScale))

\* str(int(min(5, rating / 2))), the rating v in units of 1/RatingScale
rating_5(v) ==
    LET half == v                       \* rating / 2, in units of 1/(2 * RatingScale)
        five == 5 * 2 * RatingScale
        least == IF half < five THEN half ELSE five
    IN  PyStrInt(TruncDiv(least, 2 * RatingScale))

RatingValue(r) == IF r.t = "absent" THEN 0 ELSE r.v

\* one pass of the loop body: (url, listitem, False); of the listitem the
\* rating icon is kept, the fixed labels and properties are the same for all
toEntry(result) ==
    [url |-> action_url(result.id), icon |-> rating_5(RatingValue(result.rating))]

\* the loop body raises: result.get on a value that is no object, or
\* rating / 2 on a value that is no number
LoopRaises(result) == result.t # "object" \/ result.rating.t = "null"

\* a search_subtitles without the check of the title
TitleBlank_unchecked(t) == FALSE

\* if not title
TitleBlank(t) == t = <<>>

Normal(list, calls) == [raised |-> FALSE, list |-> list, calls |-> calls]
Raised(calls) == [raised |-> TRUE, list |-> <<>>, calls |-> calls]

\* search_subtitles(item) when the API answers rep: whether it raises, the
\* list it returns, the urlopen calls it makes
search_subtitles(t, rep) ==
    IF TitleBlank(t) THEN Normal(<<>>, <<>>)
    ELSE
        LET calls == make_request_calls(search_url(t))
            data == make_request(rep)
            results == data.results
        IN  IF data.t = "null" THEN Normal(<<>>, calls)
            ELSE IF data.t # "object" THEN Raised(calls)
            ELSE IF results.t = "nolen" THEN Raised(calls)
            ELSE IF results.t \in {"absent", "empty"} THEN Normal(<<>>, calls)
            ELSE IF results.t = "string" THEN Raised(calls)
            ELSE IF results.items = <<>> THEN Normal(<<>>, calls)
            ELSE IF \E i \in 1..Len(results.items) : LoopRaises(results.items[i])
                 THEN Raised(calls)
            ELSE Normal([i \in 1..Len(results.items) |-> toEntry(results.items[i])], calls)

----------------------------------------------------------------------------
(* download_subtitle *)

TEMP == <<"<profile>/temp/">>

download_url(id) == SUBTIS_API_BASE \o <<"/subtitle/link/">> \o id

\* os.path.join(__temp__, f"subtis_{subtitle_id}.srt")
subtitle_path(id) == TEMP \o <<"subtis_">> \o id \o <<".srt">>

\* bytes.decode of the UTF-8 codec raises UnicodeDecodeError: a C3 with no A9
\* after it, or an A9 with no C3 before it
RECURSIVE DecodeRaises(_)
DecodeRaises(b) ==
    IF b = <<>> THEN FALSE
    ELSE IF b[1] = "XC3"
         THEN IF Len(b) >= 2 /\ b[2] = "XA9" THEN DecodeRaises(SubSeq(b, 3, Len(b))) ELSE TRUE
    ELSE IF b[1] = "XA9" THEN TRUE
    ELSE DecodeRaises(Tail(b))

\* bytes.decode of the UTF-8 codec, of bytes it accepts: C3 A9 is one character
RECURSIVE Decode(_)
Decode(b) ==
    IF b = <<>> THEN <<>>
    ELSE IF b[1] = "XC3" THEN <<"<U+00E9>">> \o Decode(SubSeq(b, 3, Len(b)))
    ELSE <<b[1]>> \o Decode(Tail(b))

\* the UTF-8 encoding of a text
RECURSIVE Encode(_)
Encode(text) ==
    IF text = <<>> THEN <<>>
    ELSE (IF Head(text) = "<U+00E9>" THEN <<"XC3", "XA9">> ELSE <<Head(text)>>)
            \o Encode(Tail(text))

\* the newline translation of a file opened in text mode for writing: every
\* line feed becomes os.linesep
RECURSIVE Translate(_, _)
Translate(text, sep) ==
    IF text = <<>> THEN <<>>
    ELSE (IF Head(text) = "LF" THEN sep ELSE <<Head(text)>>) \o Translate(Tail(text), sep)

\* the bytes a file opened with open(path, 'w', encoding='utf-8') holds after
\* write(text)
TextWrite(text, sep) == Encode(Translate(text, sep))

\* outcomes of open() and write(): both succeed, open() raises OSError, or
\* the write raises OSError after k bytes reached the file
NoIo == [kind |-> "none", k |-> 0]
IoOutcomes(content) ==
    {[kind |-> "ok", k |-> Len(content)], [kind |-> "open_error", k |-> 0]}
        \cup {[kind |-> "write_error", k |-> k] : k \in 0..(Len(content) - 1)}

WriteFile(fs, path, content) ==
    [p \in DOMAIN fs \cup {path} |-> IF p = path THEN content ELSE fs[p]]

\* the files after the with open(...) block of download_subtitle
FilesAfter(fs, path, content, o) ==
    IF o.kind = "open_error" THEN fs ELSE WriteFile(fs, path, SubSeq(content, 1, o.k))

\* the list download_subtitle returns
download_result(id, rep, o) ==
    IF rep.status = "OK" /\ ~DecodeRaises(rep.body) /\ o.kind = "ok"
    THEN <<subtitle_path(id)>>
    ELSE <<>>

----------------------------------------------------------------------------
(* get_params and the dispatch of main *)

EmptyDict == [n \in {} |-> <<>>]

\* dict(pairs): a later pair replaces an earlier one with the same name
RECURSIVE DictOf(_)
DictOf(pairs) ==
    IF pairs = <<>> THEN EmptyDict
    ELSE LET d == DictOf(SubSeq(pairs, 1, Len(pairs) - 1))
             last == pairs[Len(pairs)]
         IN  [n \in DOMAIN d \cup {last[1]} |-> IF n = last[1] THEN last[2] ELSE d[n]]

\* urllib.parse.parse_qsl(qs): the fields separated by &, each split at its
\* first =; a field with an empty value is dropped
RECURSIVE PairsOf(_)
PairsOf(fields) ==
    IF fields = <<>> THEN <<>>
    ELSE LET nv == Partition(Head(fields), "=")
         IN  (IF nv[3] # <<>>
              THEN <<<<unquote(PlusToSpace(nv[1])), unquote(PlusToSpace(nv[3]))>>>>
              ELSE <<>>) \o PairsOf(Tail(fields))

parse_qsl(qs) == PairsOf(Split(qs, "&"))

get_params(paramstring) ==
    IF CharLen(paramstring) >= 2 THEN DictOf(parse_qsl(Tail(paramstring))) ELSE EmptyDict

Has(d, k) == k \in DOMAIN d

\* params.get('action') compared with a literal
ActionIs(d, word) == Has(d, <<"action">>) /\ d[<<"action">>] = <<word>>

\* if subtitle_id: the parameter is there and not empty
HasId(d) == Has(d, <<"id">>) /\ d[<<"id">>] # <<>>

\* the part of a plugin URL the host passes as sys.argv[2]: from the ? on
QueryOf(url) == SubSeq(url, Find(url, "?"), Len(url))

\* parameter strings the host starts the script with
HostParamStrings ==
    {<<>>, <<"?">>,
     <<"?", "action", "=", "search">>,
     <<"?", "action", "=", "download">>,
     <<"?", "action", "=", "download", "&", "id", "=">>,
     <<"?", "action", "=", "download", "&", "id", "=", "4", "2">>,
     <<"?", "action", "=", "manualsearch", "&", "searchstring", "=", "a">>,
     <<"?", "action", "=", "bogus">>,
     <<"?", "id", "=", "4">>}

----------------------------------------------------------------------------
(* The host calls *)

AddDirectoryItem(url, ic) == [call |-> "addDirectoryItem", url |-> url, icon |-> ic]
EndOfDirectoryCall == [call |-> "endOfDirectory", url |-> <<>>, icon |-> <<>>]

\* the loop over subtitles_list in the search branch
RegisterEntries(list) == [i \in 1..Len(list) |-> AddDirectoryItem(list[i].url, list[i].icon)]

\* the loop over subtitle_list in the download branch: label and url are the path
RegisterPaths(list) == [i \in 1..Len(list) |-> AddDirectoryItem(list[i], <<>>)]

----------------------------------------------------------------------------
(* The invocations *)

Init ==
    /\ pc = "idle"
    /\ argv2 = <<>>
    /\ params = EmptyDict
    /\ origin = NoOrigin
    /\ title = <<>>
    /\ reply = NoReply
    /\ returned = <<>>
    /\ hostCalls = <<>>
    /\ httpLog = <<>>
    /\ io = NoIo
    /\ tempExists = FALSE
    /\ files = EmptyDict
    /\ fs0 = <<FALSE, EmptyDict>>
    /\ linesep \in LineSeps
    /\ invocations = 0
    /\ rating = 0
    /\ icon = <<>>

\* main() up to the dispatch: parse the parameters, read the action
Start(paramstring, from) ==
    /\ invocations < MaxInvocations
    /\ argv2' = paramstring
    /\ origin' = from
    /\ params' = get_params(paramstring)
    /\ pc' = "main"
    /\ title' = <<>>
    /\ reply' = NoReply
    /\ returned' = <<>>
    /\ hostCalls' = <<>>
    /\ httpLog' = <<>>
    /\ io' = NoIo
    /\ fs0' = <<tempExists, files>>
    /\ invocations' = invocations + 1
    /\ UNCHANGED <<tempExists, files, linesep, rating, icon>>

\* the host starts the script with a parameter string of its own
Invoke ==
    /\ pc \in {"idle", "done", "raised"}
    /\ \E p \in HostParamStrings : Start(p, NoOrigin)

\* the user picks an entry of the list the last search registered: the host
\* starts the script with the query part of the entry's URL.  The i-th entry
\* was built from the i-th element of the results array.
Activate ==
    /\ pc = "done"
    /\ ActionIs(params, "search")
    /\ \E i \in DOMAIN returned :
        Start(QueryOf(returned[i].url), reply.json.results.items[i].id)

\* action == 'search': read the title of the playing video (the original
\* title, the shown title when that is empty), search, register every entry
SearchBranch ==
    /\ pc = "main"
    /\ ActionIs(params, "search")
    /\ \E original \in Titles, shown \in Titles :
        LET t == IF original = <<>> THEN shown ELSE original
        IN  \E rep \in (IF TitleBlank(t) THEN {NoReply} ELSE SearchReplies) :
                LET out == search_subtitles(t, rep)
                IN  /\ title' = t
                    /\ reply' = rep
                    /\ httpLog' = httpLog \o out.calls
                    /\ returned' = out.list
                    /\ hostCalls' = hostCalls \o RegisterEntries(out.list)
                    /\ pc' = IF out.raised THEN "raised" ELSE "finalize"
    /\ UNCHANGED <<argv2, params, origin, io, tempExists, files, fs0, linesep,
                   invocations, rating, icon>>

\* action == 'download' with an id: download_subtitle, register the path
DownloadBranch ==
    /\ pc = "main"
    /\ ActionIs(params, "download")
    /\ HasId(params)
    /\ LET id == params[<<"id">>]
       IN  \E made \in (IF tempExists THEN {TRUE} ELSE BOOLEAN),
               rep \in DownloadReplies(download_url(id)) :
            LET decoded == rep.status = "OK" /\ ~DecodeRaises(rep.body)
                content == IF decoded THEN TextWrite(Decode(rep.body), linesep) ELSE <<>>
            IN  \E o \in (IF ~decoded THEN {NoIo}
                          ELSE IF ~made THEN {[kind |-> "open_error", k |-> 0]}
                          ELSE IoOutcomes(content)) :
                    /\ tempExists' = made
                    /\ httpLog' = httpLog \o <<download_url(id)>>
                    /\ reply' = rep
                    /\ io' = o
                    /\ files' = IF decoded
                                THEN FilesAfter(files, subtitle_path(id), content, o)
                                ELSE files
                    /\ returned' = download_result(id, rep, o)
                    /\ hostCalls' = hostCalls \o RegisterPaths(download_result(id, rep, o))
    /\ pc' = "finalize"
    /\ UNCHANGED <<argv2, params, origin, title, fs0, linesep, invocations, rating, icon>>

\* a download branch that creates the scratch directory before it looks at the id
DownloadNoId_mkdirs ==
    /\ pc = "main"
    /\ ActionIs(params, "download")
    /\ ~HasId(params)
    /\ tempExists' = TRUE
    /\ pc' = "finalize"
    /\ UNCHANGED <<argv2, params, origin, title, reply, returned, hostCalls, httpLog, io,
                   files, fs0, linesep, invocations, rating, icon>>

\* action == 'download' without an id: only a log line
DownloadNoId ==
    /\ pc = "main"
    /\ ActionIs(params, "download")
    /\ ~HasId(params)
    /\ pc' = "finalize"
    /\ UNCHANGED <<argv2, params, origin, title, reply, returned, hostCalls, httpLog, io,
                   tempExists, files, fs0, linesep, invocations, rating, icon>>

\* action == 'manualsearch': only a log line
ManualSearchBranch ==
    /\ pc = "main"
    /\ ActionIs(params, "manualsearch")
    /\ pc' = "finalize"
    /\ UNCHANGED <<argv2, params, origin, title, reply, returned, hostCalls, httpLog, io,
                   tempExists, files, fs0, linesep, invocations, rating, icon>>

\* any other action, or none: only a log line
UnknownBranch ==
    /\ pc = "main"
    /\ ~ActionIs(params, "search")
    /\ ~ActionIs(params, "download")
    /\ ~ActionIs(params, "manualsearch")
    /\ pc' = "finalize"
    /\ UNCHANGED <<argv2, params, origin, title, reply, returned, hostCalls, httpLog, io,
                   tempExists, files, fs0, linesep, invocations, rating, icon>>

\* xbmcplugin.endOfDirectory, the end of main()
EndOfDirectory ==
    /\ pc = "finalize"
    /\ hostCalls' = Append(hostCalls, EndOfDirectoryCall)
    /\ pc' = "done"
    /\ UNCHANGED <<argv2, params, origin, title, reply, returned, httpLog, io,
                   tempExists, files, fs0, linesep, invocations, rating, icon>>

Next ==
    \/ Invoke
    \/ Activate
    \/ SearchBranch
    \/ DownloadBranch
    \/ DownloadNoId
    \/ ManualSearchBranch
    \/ UnknownBranch
    \/ EndOfDirectory

Spec == Init /\ [][Next]_vars

----------------------------------------------------------------------------
(* The rating conversion on its own *)

Ratings == {n : n \in (0 - MaxRating * RatingScale)..(MaxRating * RatingScale)}

StarsInit ==
    /\ pc = "rate"
    /\ argv2 = <<>>
    /\ params = EmptyDict
    /\ origin = NoOrigin
    /\ title = <<>>
    /\ reply = NoReply
    /\ returned = <<>>
    /\ hostCalls = <<>>
    /\ httpLog = <<>>
    /\ io = NoIo
    /\ tempExists = FALSE
    /\ files = EmptyDict
    /\ fs0 = <<FALSE, EmptyDict>>
    /\ linesep = <<"LF">>
    /\ invocations = 0
    /\ rating \in Ratings
    /\ icon = <<>>

\* listitem.setArt({'icon': rating_5})
SetArt ==
    /\ pc = "rate"
    /\ icon' = rating_5(rating)
    /\ pc' = "rated"
    /\ UNCHANGED <<argv2, params, origin, title, reply, returned, hostCalls, httpLog, io,
                   tempExists, files, fs0, linesep, invocations, rating>>

StarsNext == SetArt

SpecStars == StarsInit /\ [][StarsNext]_vars

----------------------------------------------------------------------------
(* Properties *)

Terminated == pc \in {"done", "raised"}
BranchDone == pc \in {"finalize", "done"}

EndCalls == {i \in DOMAIN hostCalls : hostCalls[i].call = "endOfDirectory"}
AddCalls == SelectSeq(hostCalls, LAMBDA c : c.call = "addDirectoryItem")

IsSearch == ActionIs(params, "search")
IsDownload == ActionIs(params, "download") /\ HasId(params)
IsNoOp == pc # "idle" /\ ~IsSearch /\ ~IsDownload

\* the results array of a search response that has one
HasResultsArray ==
    /\ reply.status = "OK"
    /\ reply.json.t = "object"
    /\ reply.json.results.t = "array"
ResultsArray == reply.json.results.items

\* C1: every invocation of main() calls endOfDirectory exactly once, as its
\* last host call, whichever branch ran and whether or not it failed: never
\* two calls, none followed by another host call, and none missing once the
\* invocation is over.
C1_EndOfDirectoryOnceAndLast ==
    /\ Cardinality(EndCalls) <= 1
    /\ EndCalls \subseteq {Len(hostCalls)}
    /\ Terminated => EndCalls # {}

\* C2: a download that fails (connection, status, undecodable body, open or
\* write error) returns an empty list and leaves no empty or partly written
\* subtis_{id}.srt: the file is absent, or is the file that was there before.
C2_FailedDownloadLeavesNoPartialFile ==
    (/\ BranchDone
     /\ IsDownload
     /\ \/ reply.status # "OK"
        \/ DecodeRaises(reply.body)
        \/ io.kind \in {"open_error", "write_error"})
    => /\ returned = <<>>
       /\ LET path == subtitle_path(params[<<"id">>])
          IN  \/ path \notin DOMAIN files
              \/ path \in DOMAIN fs0[2] /\ files[path] = fs0[2][path]

\* a search response of the expected shape: an object whose results are an
\* array of objects with numeric (or no) ratings
WellShaped ==
    /\ HasResultsArray
    /\ \A i \in DOMAIN ResultsArray :
        ResultsArray[i].t = "object" /\ ResultsArray[i].rating.t # "null"

SearchFailure == IsSearch /\ (TitleBlank(title) \/ reply.status # "OK" \/ ~WellShaped)
DownloadFailure ==
    /\ ActionIs(params, "download")
    /\ ~HasId(params) \/ reply.status # "OK" \/ DecodeRaises(reply.body)

\* C3: network failures, statuses outside 2xx, malformed or unexpectedly
\* shaped bodies and missing inputs are all swallowed: no exception leaves
\* main(), and the invocation yields an empty result and registers no item.
C3_FailuresAreSwallowed ==
    /\ pc # "raised"
    /\ (BranchDone /\ (SearchFailure \/ DownloadFailure))
        => returned = <<>> /\ AddCalls = <<>>

\* the candidates of a search response: the objects of its results array
Candidates == SelectSeq(ResultsArray, LAMBDA e : e.t = "object")

\* C4: for every search response with a results array, the items registered
\* with the host are as many as the candidates of the array and the i-th
\* item is the entry of the i-th candidate: none dropped, merged or moved.
C4_EntriesMatchResults ==
    (pc \in {"finalize", "done", "raised"} /\ IsSearch /\ HasResultsArray)
    => /\ Len(AddCalls) = Len(Candidates)
       /\ \A i \in DOMAIN Candidates :
            QueryOf(AddCalls[i].url)
                = <<"?", "action", "=", "download", "&", "id", "=">>
                    \o Format(Candidates[i].id)

\* C5: when the remote call succeeds with body B (that decodes, and the file
\* is opened and written without error), the file subtis_{id}.srt of the
\* scratch directory holds exactly B, download_subtitle returns that path
\* and main registers exactly one item, whose URL is the path.
C5_DownloadWritesBody ==
    (/\ BranchDone
     /\ IsDownload
     /\ reply.status = "OK"
     /\ ~DecodeRaises(reply.body)
     /\ io.kind = "ok")
    => LET path == TEMP \o <<"subtis_">> \o params[<<"id">>] \o <<".srt">>
       IN  /\ path \in DOMAIN files
           /\ files[path] = reply.body
           /\ returned = <<path>>
           /\ AddCalls = <<AddDirectoryItem(path, <<>>)>>

\* C6: an invocation makes at most one HTTP call: a search only one to the
\* title search endpoint, a download only one to the subtitle link endpoint,
\* any other invocation none, and a failed call is not repeated.
C6_AtMostOneHttpCall ==
    /\ Len(httpLog) <= 1
    /\ \A i \in DOMAIN httpLog :
        \/ IsSearch /\ httpLog[i][2] = "/titles/search/"
        \/ IsDownload /\ httpLog[i][2] = "/subtitle/link/"

C6_Witness ==
    /\ pc = "done"
    /\ reply.status \in {"URLError", "HTTPError"}
    /\ Len(httpLog) = 1

\* C7: a search with a blank title returns an empty list and makes no HTTP
\* call; a search request is only ever issued for a title that is not empty.
C7_BlankTitleNoRequest ==
    /\ (pc \in {"finalize", "done", "raised"} /\ IsSearch /\ title = <<>>)
        => returned = <<>> /\ httpLog = <<>>
    /\ \A i \in DOMAIN httpLog : httpLog[i][2] = "/titles/search/" => title # <<>>

C7_Witness == pc = "done" /\ IsSearch /\ title = <<>> /\ hostCalls = <<EndOfDirectoryCall>>

\* C8: an invocation whose action is unknown or missing, is manualsearch, or
\* is download without an id registers no item, makes no HTTP call and
\* leaves the scratch directory and its files as they were; its only host
\* call is the one endOfDirectory.
C8_NoOpBranchesTouchNothing ==
    (BranchDone /\ IsNoOp)
    => /\ AddCalls = <<>>
       /\ httpLog = <<>>
       /\ <<tempExists, files>> = fs0
       /\ pc = "done" => hostCalls = <<EndOfDirectoryCall>>

C8_Witness ==
    /\ pc = "done"
    /\ ActionIs(params, "download")
    /\ ~HasId(params)
    /\ files # EmptyDict

\* floor of n/d for d > 0: the greatest integer k with k * d <= n
Floor(n, d) == CHOOSE k \in (0 - n - 1)..(n + 1) : k * d <= n /\ n < (k + 1) * d

\* C9: for a rating r in [0,10] the star value is floor(min(5, r/2)) and lies
\* in [0,5]; stars(10) = 5, stars(0) = 0, stars(7) = 3.
C9_StarsAreFloorOfHalf ==
    (pc = "rated" /\ rating >= 0 /\ rating <= 10 * RatingScale)
    => /\ \E k \in 0..5 : icon = PyStrInt(k)
       /\ LET half == IF rating <= 10 * RatingScale THEN rating ELSE 10 * RatingScale
          IN  icon = PyStrInt(Floor(half, 2 * RatingScale))
       /\ rating = 10 * RatingScale => icon = <<"5">>
       /\ rating = 0 => icon = <<"0">>
       /\ rating = 7 * RatingScale => icon = <<"3">>

C9_Witness == pc = "rated" /\ rating = 7 * RatingScale /\ icon = <<"3">>

\* C10: when the host activates the entry a search built for a candidate with
\* identifier x, main selects the download action with the id parameter
\* equal to x, and the download request goes to /subtitle/link/{x} only.
C10_RoundTrip ==
    (pc # "idle" /\ origin.t \in {"int", "str"} /\ Format(origin) # <<>>)
    => /\ ActionIs(params, "download")
       /\ HasId(params)
       /\ params[<<"id">>] = Format(origin)
       /\ \A i \in DOMAIN httpLog :
            httpLog[i] = SUBTIS_API_BASE \o <<"/subtitle/link/">> \o Format(origin)

====
